---------------------------- MODULE Spec2Model ----------------------------
(***************************************************************************)
(* Part-number resolution engine of crownpipe/data/verify_part_numbers.py. *)
(*                                                                         *)
(* Strings are sequences of one-character strings, so that normalisation,  *)
(* leading-zero stripping and the decimal split are computed character by  *)
(* character.  Python's None is the one-element sequence <<"None">>, which *)
(* no character string can equal; True/False stored next to None (the      *)
(* FileMaker flag) are <<"True">> and <<"False">>.                         *)
(***************************************************************************)
EXTENDS Naturals, Sequences, FiniteSets, Bags, TLC

VARIABLES
    threads,          \* per thread, the position and the locals of its evaluate_part call
    cursor,           \* per connection, the rows left in the result set of its shared cursor
    serialized,       \* whether the callers serialize the first access to each lazy map
    insmfh,           \* DataCaches._insmfh: SNSCHR -> SSUPER, "" or None
    ininter,          \* DataCaches._ininter: ICPNO(child) -> IPTNO(parent)
    vendor_map,       \* DataCaches._vendor_map: SGVPT# -> SGPTNO
    fm_table,         \* FileMaker Master: AS400_NumberStripped -> ToggleActive
    fm_active_cache,  \* DataCaches._fm_active_cache
    fm_query_count,   \* per key, the SELECTs executed on the FileMaker cursor
    fm_lookups,       \* the non-empty normalized keys fm_find_active_flag was asked
    fm_last,          \* the last fm_find_active_flag call: argument, key, value
    pc,               \* position of the running evaluate_part call
    supplied,         \* evaluate_part: its argument
    candidate,        \* evaluate_part: local candidate
    master,           \* evaluate_part: local master
    result,           \* evaluate_part: the result dictionary
    variants,         \* evaluate_part: decimal variants still to be tried
    calls,            \* resolve_master_number calls of the running evaluate_part
    last,             \* the last direct call of a pure function and what it returned
    rows,             \* the AS/400 tables INSMFH, ININTER, POSRCGDP: rows of two columns
    faults,           \* the connections on which a query can fail
    loaded,           \* the maps of DataCaches that are not None
    load_log,         \* the bag of full-table SELECTs executed on the AS/400 cursor
    main_pc,          \* position of main(); "none" when the cache is used without it
    part_numbers,     \* main: the stripped non-blank lines of the input file
    results,          \* main: the results appended so far
    csv               \* the output file: whether write_csv wrote it, and its rows

vars == <<insmfh, ininter, vendor_map, fm_table, fm_active_cache, fm_query_count,
          fm_lookups, fm_last, pc, supplied, candidate, master, result, variants,
          calls, last, rows, faults, loaded, load_log, main_pc, part_numbers,
          results, csv, threads, cursor, serialized>>

maps == <<insmfh, ininter, vendor_map, fm_table>>
fmvars == <<fm_active_cache, fm_query_count, fm_lookups, fm_last>>
evalvars == <<pc, supplied, candidate, master, result, variants, calls>>
loadvars == <<rows, faults, loaded, load_log>>
mainvars == <<main_pc, part_numbers, results, csv>>
threadvars == <<threads, cursor, serialized>>

---------------------------------------------------------------------------
(* Python values *)

None == <<"None">>
PyTrue == <<"True">>
PyFalse == <<"False">>
EmptyStr == << >>
EmptyDict == << >>

\* Python truthiness of an Optional[str]: None and "" are false.
Truthy(x) == x # None /\ x # EmptyStr

\* dict.get(k): the value, or None when k is no key.
DictGet(d, k) == IF k \in DOMAIN d THEN d[k] ELSE None

\* dict.get(k, default)
DictGetDefault(d, k, default) == IF k \in DOMAIN d THEN d[k] ELSE default

\* A character outside ASCII for which str.isdigit() is true (superscript two).
SupTwo == "^2"

UpperCase == {"A", "B", "C", "D", "V"}
LowerCase == {"a", "d", "v"}
AsciiDigit == {"0", "1", "4", "7", "8", "9"}

\* str.upper() on one character
Upper(c) == CASE c = "a" -> "A" [] c = "d" -> "D" [] c = "v" -> "V" [] OTHER -> c

\* the characters re [A-Za-z0-9] keeps
IsAlnum(c) == c \in UpperCase \cup LowerCase \cup AsciiDigit

\* str.isdigit() on one character: ASCII digits and the other Unicode digits
IsDigitChar(c) == c \in AsciiDigit \cup {SupTwo}

RECURSIVE normalize_chars_keep_case(_)
normalize_chars_keep_case(s) ==
    IF s = << >> THEN << >>
    ELSE IF IsAlnum(Head(s)) THEN <<Head(s)>> \o normalize_chars_keep_case(Tail(s))
    ELSE normalize_chars_keep_case(Tail(s))

RECURSIVE normalize_chars(_)
normalize_chars(s) ==
    IF s = << >> THEN << >>
    ELSE IF IsAlnum(Head(s)) THEN <<Upper(Head(s))>> \o normalize_chars(Tail(s))
    ELSE normalize_chars(Tail(s))

\* normalize_part_number: drop every character outside [A-Za-z0-9], uppercase.
normalize_part_number(part) ==
    IF part = None THEN EmptyStr ELSE normalize_chars(part)

---------------------------------------------------------------------------
(* Supersession walk *)

\* The while-loop of resolve_supersession_chain; path lists the keys `current`
\* has held and advances counts the assignments current = ssuper.
RECURSIVE chain_loop_return_ssuper(_, _, _, _, _)
chain_loop_return_ssuper(m, current, visited, path, advances) ==
    IF current \in visited
    THEN [ret |-> current, visited |-> visited, path |-> path, advances |-> advances]
    ELSE LET ssuper == DictGet(m, current) IN
         IF ~Truthy(ssuper)
         THEN [ret |-> ssuper, visited |-> visited \cup {current},
               path |-> path, advances |-> advances]
         ELSE chain_loop_return_ssuper(m, ssuper, visited \cup {current},
                                       Append(path, ssuper), advances + 1)

RECURSIVE chain_loop_return_previous(_, _, _, _, _)
chain_loop_return_previous(m, current, visited, path, advances) ==
    LET ssuper == DictGet(m, current) IN
    IF ~Truthy(ssuper) \/ ssuper \in visited \cup {current}
    THEN [ret |-> current, visited |-> visited \cup {current},
          path |-> path, advances |-> advances]
    ELSE chain_loop_return_previous(m, ssuper, visited \cup {current},
                                    Append(path, ssuper), advances + 1)

RECURSIVE chain_loop(_, _, _, _, _)
chain_loop(m, current, visited, path, advances) ==
    IF current \in visited
    THEN [ret |-> current, visited |-> visited, path |-> path, advances |-> advances]
    ELSE LET ssuper == DictGet(m, current) IN
         IF ~Truthy(ssuper)
         THEN [ret |-> current, visited |-> visited \cup {current},
               path |-> path, advances |-> advances]
         ELSE chain_loop(m, ssuper, visited \cup {current},
                         Append(path, ssuper), advances + 1)

supersession_walk_unnormalized(m, start) ==
    LET current == start IN
    IF ~Truthy(current)
    THEN [ret |-> current, visited |-> {}, path |-> <<current>>, advances |-> 0]
    ELSE IF current \notin DOMAIN m
    THEN [ret |-> current, visited |-> {}, path |-> <<current>>, advances |-> 0]
    ELSE chain_loop(m, current, {}, <<current>>, 0)

\* resolve_supersession_chain with its bookkeeping
supersession_walk(m, start) ==
    LET current == normalize_part_number(start) IN
    IF ~Truthy(current)
    THEN [ret |-> current, visited |-> {}, path |-> <<current>>, advances |-> 0]
    ELSE IF current \notin DOMAIN m
    THEN [ret |-> current, visited |-> {}, path |-> <<current>>, advances |-> 0]
    ELSE chain_loop(m, current, {}, <<current>>, 0)

resolve_supersession_chain_no_walk(m, start) == normalize_part_number(start)

resolve_supersession_chain(m, start) == supersession_walk(m, start).ret

---------------------------------------------------------------------------
(* Master resolution *)

resolve_master_number_key_only(inter, super, snschr) ==
    LET key == normalize_part_number(snschr) IN
    IF ~Truthy(key) THEN None
    ELSE LET base == DictGetDefault(inter, key, key)
             m == resolve_supersession_chain(super, base)
         IN IF ~Truthy(m) THEN None
            ELSE IF m \in DOMAIN super THEN m
            ELSE None

resolve_master_number_unchecked(inter, super, snschr) ==
    LET key == normalize_part_number(snschr) IN
    IF ~Truthy(key) THEN None
    ELSE LET base == DictGetDefault(inter, key, key)
             m == resolve_supersession_chain(super, base)
         IN IF ~Truthy(m) THEN None ELSE m

resolve_master_number(inter, super, snschr) ==
    LET key == normalize_part_number(snschr) IN
    IF ~Truthy(key) THEN None
    ELSE LET base == DictGetDefault(inter, key, key)
             m == resolve_supersession_chain(super, base)
         IN IF ~Truthy(m) THEN None
            ELSE IF (key \in DOMAIN inter) \/ (m \in DOMAIN super) THEN m
            ELSE None

---------------------------------------------------------------------------
(* Decimal recovery *)

\* for inputs like "4798878.01": the lengths the decimal part is zero-padded to
DECIMAL_ALLOWED_PAD_LENGTHS == <<2, 3>>

\* index of the first "." of s, 0 when s has none
RECURSIVE FirstDot(_, _)
FirstDot(s, i) ==
    IF i > Len(s) THEN 0
    ELSE IF s[i] = "." THEN i
    ELSE FirstDot(s, i + 1)

\* str.isdigit(): non-empty and every character a digit
IsDigit(s) == s # << >> /\ \A i \in 1..Len(s) : IsDigitChar(s[i])

\* str.ljust(L, "0")
RECURSIVE LJustZero(_, _)
LJustZero(s, L) == IF Len(s) >= L THEN s ELSE LJustZero(Append(s, "0"), L)

parse_decimal_any_suffix(original) ==
    LET d == FirstDot(original, 1) IN
    IF d = 0 THEN None
    ELSE LET before == SubSeq(original, 1, d - 1)
             after == SubSeq(original, d + 1, Len(original))
         IN IF after = << >> THEN None
            ELSE <<before, after>>

\* parse_decimal: <<before, after>> split on the first ".", or None
parse_decimal(original) ==
    LET d == FirstDot(original, 1) IN
    IF d = 0 THEN None
    ELSE LET before == SubSeq(original, 1, d - 1)
             after == SubSeq(original, d + 1, Len(original))
         IN IF after = << >> \/ ~IsDigit(after) THEN None
            ELSE <<before, after>>

\* the order-preserving deduplication loop of generate_decimal_variants
RECURSIVE Uniq(_, _)
Uniq(vs, uniq) ==
    IF vs = << >> THEN uniq
    ELSE IF \E i \in 1..Len(uniq) : uniq[i] = Head(vs)
    THEN Uniq(Tail(vs), uniq)
    ELSE Uniq(Tail(vs), Append(uniq, Head(vs)))

\* the zero-padding loop of generate_decimal_variants over the pad lengths from i on
RECURSIVE PadVariants(_, _, _)
PadVariants(before, after, i) ==
    IF i > Len(DECIMAL_ALLOWED_PAD_LENGTHS) THEN << >>
    ELSE LET L == DECIMAL_ALLOWED_PAD_LENGTHS[i] IN
         (IF Len(after) < L THEN <<before \o LJustZero(after, L)>> ELSE << >>)
         \o PadVariants(before, after, i + 1)

generate_decimal_variants(original_input) ==
    LET parsed == parse_decimal(original_input) IN
    IF parsed = None THEN << >>
    ELSE LET before == parsed[1]
             after == parsed[2]
         IN Uniq(<<before \o after>> \o PadVariants(before, after, 1), << >>)

---------------------------------------------------------------------------
(* Catalog cache loads *)

\* the maps of DataCaches filled from a full table
Tables == {"insmfh", "ininter", "vendor_map"}

\* d after d[k] = v
DictSet(d, k, v) == [j \in DOMAIN d \cup {k} |-> IF j = k THEN v ELSE d[j]]

\* lines 91-96: the loop of load_insmfh over the fetched rows
RECURSIVE load_insmfh_rows_first_wins(_, _)
load_insmfh_rows_first_wins(m, rs) ==
    IF rs = << >> THEN m
    ELSE LET key == normalize_part_number(Head(rs)[1])
             ssuper == Head(rs)[2]
             replacement == IF Truthy(ssuper) THEN normalize_part_number(ssuper) ELSE None
         IN load_insmfh_rows_first_wins(
                IF ~Truthy(key) \/ key \in DOMAIN m THEN m ELSE DictSet(m, key, replacement),
                Tail(rs))

RECURSIVE load_insmfh_rows(_, _)
load_insmfh_rows(m, rs) ==
    IF rs = << >> THEN m
    ELSE LET key == normalize_part_number(Head(rs)[1])
             ssuper == Head(rs)[2]
             replacement == IF Truthy(ssuper) THEN normalize_part_number(ssuper) ELSE None
         IN load_insmfh_rows(IF ~Truthy(key) THEN m ELSE DictSet(m, key, replacement),
                             Tail(rs))

\* lines 117-122: the loop of load_ininter
RECURSIVE load_ininter_rows(_, _)
load_ininter_rows(m, rs) ==
    IF rs = << >> THEN m
    ELSE LET child == normalize_part_number(Head(rs)[1])
             parent == normalize_part_number(Head(rs)[2])
         IN load_ininter_rows(IF ~Truthy(child) \/ ~Truthy(parent) THEN m
                              ELSE DictSet(m, child, parent),
                              Tail(rs))

\* lines 145-151: the loop of load_vendor_map
RECURSIVE load_vendor_map_rows(_, _)
load_vendor_map_rows(m, rs) ==
    IF rs = << >> THEN m
    ELSE LET v == normalize_part_number(Head(rs)[1])
             i == normalize_part_number(Head(rs)[2])
         IN load_vendor_map_rows(IF ~Truthy(v) \/ ~Truthy(i) THEN m
                                 ELSE DictSet(m, v, i),
                                 Tail(rs))

\* the guard of load_insmfh, load_ininter, load_vendor_map: the map is None
load_needed_always(t) == TRUE

load_needed(t) == t \notin loaded

\* cursor.execute / fetchall: the outcomes of a query on a connection
QueryOutcomes(connection) == IF connection \in faults THEN BOOLEAN ELSE {TRUE}

\* a failed query raises out of load_*: there is no try around it
load_raises_never(ok) == FALSE

load_raises(ok) == ~ok

\* the dictionary load_* leaves: {} is assigned before the SELECT, the rows
\* are folded into it when the SELECT succeeds
load_result(t, ok) ==
    IF ~ok THEN EmptyDict
    ELSE CASE t = "insmfh" -> load_insmfh_rows(EmptyDict, rows.insmfh)
           [] t = "ininter" -> load_ininter_rows(EmptyDict, rows.ininter)
           [] t = "vendor_map" -> load_vendor_map_rows(EmptyDict, rows.vendor_map)

\* the body of load_* past its guard; within names the caller
Load(t, within, ok) ==
    /\ insmfh' = IF t = "insmfh" THEN load_result(t, ok) ELSE insmfh
    /\ ininter' = IF t = "ininter" THEN load_result(t, ok) ELSE ininter
    /\ vendor_map' = IF t = "vendor_map" THEN load_result(t, ok) ELSE vendor_map
    /\ loaded' = loaded \cup {t}
    /\ load_log' = load_log (+) SetToBag({[table |-> t, within |-> within, failed |-> ~ok]})

\* an exception leaving the running call: main has no handler, so it ends main
Raise ==
    /\ pc' = "raised"
    /\ main_pc' = IF main_pc = "none" THEN "none" ELSE "aborted"
    /\ UNCHANGED <<part_numbers, results, csv>>

---------------------------------------------------------------------------
(* Catalog cache point lookups *)

\* DataCaches.resolve_vendor_internal
resolve_vendor_internal_default_key(vmap, s) ==
    LET key == normalize_part_number(s) IN
    IF ~Truthy(key) THEN None ELSE DictGetDefault(vmap, key, key)

resolve_vendor_internal_returns_key(vmap, s) ==
    LET key == normalize_part_number(s) IN
    IF ~Truthy(key) \/ key \notin DOMAIN vmap THEN None ELSE key

resolve_vendor_internal(vmap, s) ==
    LET key == normalize_part_number(s) IN
    IF ~Truthy(key) THEN None ELSE DictGet(vmap, key)

\* the SELECT of fm_find_active_flag and the reading of its row
fm_row_value_present_is_active(table, key) ==
    IF key \notin DOMAIN table THEN None ELSE PyTrue

fm_row_value(table, key) ==
    IF key \notin DOMAIN table THEN None
    ELSE IF table[key] = "Yes" THEN PyTrue ELSE PyFalse

\* whether fm_find_active_flag answers from the memo
fm_cache_hit_known_only(cache, key) == key \in DOMAIN cache /\ cache[key] # None

fm_cache_hit(cache, key) == key \in DOMAIN cache

\* DataCaches.fm_find_active_flag: the value returned and the cache, the query
\* counts and the keys asked after the call
fm_find_active_flag_single_entry(cache, counts, asked, table, snschr) ==
    LET key == normalize_part_number(snschr) IN
    IF ~Truthy(key)
    THEN [value |-> None, key |-> key, cache |-> cache, counts |-> counts,
          asked |-> asked, queried |-> FALSE]
    ELSE IF fm_cache_hit(cache, key)
    THEN [value |-> cache[key], key |-> key, cache |-> cache, counts |-> counts,
          asked |-> asked \cup {key}, queried |-> FALSE]
    ELSE LET value == fm_row_value(table, key) IN
         [value |-> value, key |-> key,
          cache |-> [k \in {key} |-> value],
          counts |-> [k \in DOMAIN counts \cup {key} |->
                        IF k = key THEN DictGetDefault(counts, k, 0) + 1
                        ELSE counts[k]],
          asked |-> asked \cup {key}, queried |-> TRUE]

fm_find_active_flag(cache, counts, asked, table, snschr) ==
    LET key == normalize_part_number(snschr) IN
    IF ~Truthy(key)
    THEN [value |-> None, key |-> key, cache |-> cache, counts |-> counts,
          asked |-> asked, queried |-> FALSE]
    ELSE IF fm_cache_hit(cache, key)
    THEN [value |-> cache[key], key |-> key, cache |-> cache, counts |-> counts,
          asked |-> asked \cup {key}, queried |-> FALSE]
    ELSE LET value == fm_row_value(table, key) IN
         [value |-> value, key |-> key,
          cache |-> [k \in DOMAIN cache \cup {key} |->
                        IF k = key THEN value ELSE cache[k]],
          counts |-> [k \in DOMAIN counts \cup {key} |->
                        IF k = key THEN DictGetDefault(counts, k, 0) + 1
                        ELSE counts[k]],
          asked |-> asked \cup {key}, queried |-> TRUE]

---------------------------------------------------------------------------
(* evaluate_part *)

\* str.startswith("0")
StartsWithZero(s) == s # << >> /\ s[1] = "0"

\* str.lstrip("0")
LStripZero_once(s) == IF StartsWithZero(s) THEN Tail(s) ELSE s

RECURSIVE LStripZero(_)
LStripZero(s) == IF StartsWithZero(s) THEN LStripZero(Tail(s)) ELSE s

\* the result dictionary evaluate_part starts from
InitialResult(s) ==
    [Supplied |-> s, VendorFlag |-> FALSE, VendorInternal |-> None,
     LeadingZeroRemoved |-> None, DecimalVariantUsed |-> None,
     AS400Found |-> FALSE, MasterNumber |-> None,
     FMFound |-> FALSE, FMActive |-> None]

\* the condition of the leading-zero stage
leading_zero_applies_ignoring_master(m, cand) == Truthy(cand) /\ StartsWithZero(cand)

leading_zero_applies(m, cand) == ~Truthy(m) /\ Truthy(cand) /\ StartsWithZero(cand)

\* the condition of the decimal stage
decimal_applies_ignoring_vendor(m, vendorFlag) == ~Truthy(m)

decimal_applies_ignoring_master(m, vendorFlag) == ~vendorFlag

decimal_applies(m, vendorFlag) == ~Truthy(m) /\ ~vendorFlag

\* the recording of the FileMaker flag in the result
record_fm_status_falsy_is_missing(r, fm_status) ==
    IF fm_status # PyTrue
    THEN [r EXCEPT !.FMFound = FALSE, !.FMActive = None]
    ELSE [r EXCEPT !.FMFound = TRUE, !.FMActive = fm_status]

record_fm_status_found_when_active(r, fm_status) ==
    [r EXCEPT !.FMFound = (fm_status = PyTrue), !.FMActive = fm_status]

record_fm_status(r, fm_status) ==
    IF fm_status = None
    THEN [r EXCEPT !.FMFound = FALSE, !.FMActive = None]
    ELSE [r EXCEPT !.FMFound = TRUE, !.FMActive = fm_status]

\* no fm_find_active_flag call made yet
NoStatusCall ==
    [arg |-> None, key |-> EmptyStr, value |-> None, queried |-> FALSE, hit |-> FALSE,
     failed |-> FALSE]

\* one resolve_master_number call of evaluate_part, as logged in calls
Lookup(stage, key) ==
    [stage |-> stage, key |-> key, ret |-> resolve_master_number(ininter, insmfh, key)]

Idle == pc \in {"idle", "returned", "raised"}

\* the key the running evaluate_part passes to resolve_master_number next
NextLookupKey ==
    CASE pc = "direct" -> candidate
      [] pc = "leading_zero" ->
            IF leading_zero_applies(master, candidate) THEN LStripZero(candidate)
            ELSE None
      [] pc = "decimal_loop" -> normalize_part_number(Head(variants))
      [] OTHER -> None

\* the properties ininter and insmfh: the map resolve_master_number reads
\* first that is still None
PendingLoad ==
    IF ~Truthy(NextLookupKey) THEN {}
    ELSE IF "ininter" \notin loaded THEN {"ininter"}
    ELSE IF "insmfh" \notin loaded THEN {"insmfh"}
    ELSE {}

\* lines 99-103, 125-129: a map loaded on its first read inside evaluate_part
LazyLoad ==
    /\ \E t \in PendingLoad, ok \in QueryOutcomes("iseries") :
          /\ Load(t, "evaluate_part", ok)
          /\ IF load_raises(ok) THEN Raise ELSE UNCHANGED <<pc, mainvars>>
    /\ UNCHANGED <<fm_table, rows, faults, fmvars, last, supplied, candidate,
                   master, result, variants, calls>>
    /\ UNCHANGED threadvars

\* lines 344-370: the result dictionary, the vendor check, the candidate
EvaluateStart(s) ==
    /\ Idle
    /\ \E ok \in QueryOutcomes("iseries") :
          LET loads == Truthy(normalize_part_number(s)) /\ "vendor_map" \notin loaded IN
          /\ IF loads
             THEN Load("vendor_map", "evaluate_part", ok)
             ELSE UNCHANGED <<insmfh, ininter, vendor_map, loaded, load_log>>
          /\ IF loads /\ load_raises(ok)
             THEN /\ result' = InitialResult(s)
                  /\ candidate' = None
                  /\ Raise
             ELSE /\ LET vendor_internal == resolve_vendor_internal(vendor_map', s) IN
                     IF Truthy(vendor_internal)
                     THEN /\ result' = [InitialResult(s) EXCEPT
                                           !.VendorFlag = TRUE,
                                           !.VendorInternal = vendor_internal]
                          /\ candidate' = vendor_internal
                     ELSE /\ result' = InitialResult(s)
                          /\ candidate' = normalize_part_number(s)
                  /\ pc' = "direct"
                  /\ UNCHANGED mainvars
    /\ supplied' = s
    /\ master' = None
    /\ variants' = << >>
    /\ calls' = << >>
    /\ fm_last' = NoStatusCall
    /\ UNCHANGED <<fm_table, rows, faults, fm_active_cache, fm_query_count, fm_lookups,
                   last>>
    /\ UNCHANGED threadvars

\* lines 372-374: direct resolution of the candidate
EvaluateDirect ==
    /\ pc = "direct"
    /\ PendingLoad = {}
    /\ IF Truthy(candidate)
       THEN LET c == Lookup("direct", candidate) IN
            /\ master' = c.ret
            /\ calls' = Append(calls, c)
       ELSE UNCHANGED <<master, calls>>
    /\ pc' = "leading_zero"
    /\ UNCHANGED <<maps, loadvars, mainvars, fmvars, last, supplied, candidate, result, variants>>
    /\ UNCHANGED threadvars

\* lines 376-387: leading-zero removal on the candidate
EvaluateLeadingZero ==
    /\ pc = "leading_zero"
    /\ PendingLoad = {}
    /\ IF leading_zero_applies(master, candidate) /\ Truthy(LStripZero(candidate))
       THEN LET stripped == LStripZero(candidate)
                c == Lookup("leading_zero", stripped)
            IN /\ calls' = Append(calls, c)
               /\ IF Truthy(c.ret)
                  THEN /\ master' = c.ret
                       /\ result' = [result EXCEPT !.LeadingZeroRemoved = stripped]
                  ELSE UNCHANGED <<master, result>>
       ELSE UNCHANGED <<master, result, calls>>
    /\ pc' = "decimal"
    /\ UNCHANGED <<maps, loadvars, mainvars, fmvars, last, supplied, candidate, variants>>
    /\ UNCHANGED threadvars

\* lines 389-391: the condition of the decimal fallback and its variant list
EvaluateDecimal ==
    /\ pc = "decimal"
    /\ IF decimal_applies(master, result.VendorFlag)
          /\ generate_decimal_variants(supplied) # << >>
       THEN /\ variants' = generate_decimal_variants(supplied)
            /\ pc' = "decimal_loop"
       ELSE /\ variants' = << >>
            /\ pc' = "status"
    /\ UNCHANGED <<maps, loadvars, mainvars, fmvars, last, supplied, candidate, master, result, calls>>
    /\ UNCHANGED threadvars

\* lines 391-403: one iteration of the loop over the decimal variants
EvaluateDecimalVariant ==
    /\ pc = "decimal_loop"
    /\ variants # << >>
    /\ PendingLoad = {}
    /\ LET norm_variant == normalize_part_number(Head(variants))
           c == Lookup("decimal", norm_variant)
           found == Truthy(norm_variant) /\ Truthy(c.ret)
       IN /\ IF Truthy(norm_variant)
             THEN calls' = Append(calls, c)
             ELSE UNCHANGED calls
          /\ IF found
             THEN /\ master' = c.ret
                  /\ result' = [result EXCEPT !.DecimalVariantUsed = norm_variant]
             ELSE UNCHANGED <<master, result>>
          /\ variants' = Tail(variants)
          /\ pc' = IF found \/ Tail(variants) = << >> THEN "status" ELSE "decimal_loop"
    /\ UNCHANGED <<maps, loadvars, mainvars, fmvars, last, supplied, candidate>>
    /\ UNCHANGED threadvars

\* lines 405-418: the found flags and the FileMaker status of the master
EvaluateStatus ==
    /\ pc = "status"
    /\ IF Truthy(master)
       THEN LET f == fm_find_active_flag(fm_active_cache, fm_query_count, fm_lookups,
                                         fm_table, master)
            IN /\ result' = record_fm_status(
                                [result EXCEPT !.AS400Found = TRUE,
                                               !.MasterNumber = master], f.value)
               /\ fm_active_cache' = f.cache
               /\ fm_query_count' = f.counts
               /\ fm_lookups' = f.asked
               /\ fm_last' = [arg |-> master, key |-> f.key,
                              value |-> f.value, queried |-> f.queried,
                              hit |-> f.key \in DOMAIN fm_active_cache,
                              failed |-> FALSE]
       ELSE UNCHANGED <<result, fmvars>>
    /\ pc' = "returned"
    /\ UNCHANGED <<maps, loadvars, mainvars, last, supplied, candidate, master, variants, calls>>
    /\ UNCHANGED threadvars

\* lines 191-192 inside evaluate_part: the SELECT of fm_find_active_flag fails;
\* nothing catches the exception, the memo is not written
EvaluateStatusFails ==
    /\ pc = "status"
    /\ Truthy(master)
    /\ FALSE \in QueryOutcomes("filemaker")
    /\ LET key == normalize_part_number(master) IN
       /\ Truthy(key)
       /\ ~fm_cache_hit(fm_active_cache, key)
       /\ fm_query_count' = DictSet(fm_query_count, key,
                                    DictGetDefault(fm_query_count, key, 0) + 1)
       /\ fm_lookups' = fm_lookups \cup {key}
       /\ fm_last' = [arg |-> master, key |-> key, value |-> None,
                      queried |-> TRUE, hit |-> FALSE, failed |-> TRUE]
    /\ result' = [result EXCEPT !.AS400Found = TRUE, !.MasterNumber = master]
    /\ Raise
    /\ UNCHANGED <<maps, loadvars, fm_active_cache, last, supplied, candidate, master,
                   variants, calls>>
    /\ UNCHANGED threadvars

\* a call of DataCaches.fm_find_active_flag from outside evaluate_part; the
\* frame of a finished evaluate_part is gone by then
StatusCall(s) ==
    /\ Idle
    /\ LET f == fm_find_active_flag(fm_active_cache, fm_query_count, fm_lookups,
                                    fm_table, s)
       IN /\ fm_active_cache' = f.cache
          /\ fm_query_count' = f.counts
          /\ fm_lookups' = f.asked
          /\ fm_last' = [arg |-> s, key |-> f.key, value |-> f.value,
                         queried |-> f.queried,
                         hit |-> f.key \in DOMAIN fm_active_cache, failed |-> FALSE]
    /\ pc' = "idle"
    /\ supplied' = None
    /\ candidate' = None
    /\ master' = None
    /\ result' = InitialResult(None)
    /\ variants' = << >>
    /\ calls' = << >>
    /\ UNCHANGED <<maps, loadvars, mainvars, last>>
    /\ UNCHANGED threadvars

\* a call of resolve_supersession_chain on the loaded supersession map
WalkCall(start) ==
    /\ Idle
    /\ "insmfh" \in loaded
    /\ last' = [op |-> "walk", arg |-> start] @@ supersession_walk(insmfh, start)
    /\ UNCHANGED <<maps, loadvars, mainvars, fmvars, evalvars>>
    /\ UNCHANGED threadvars

\* a call of resolve_master_number on the loaded maps
ResolveCall(snschr) ==
    /\ Idle
    /\ {"ininter", "insmfh"} \subseteq loaded
    /\ last' = [op |-> "resolve", arg |-> snschr,
                ret |-> resolve_master_number(ininter, insmfh, snschr)]
    /\ UNCHANGED <<maps, loadvars, mainvars, fmvars, evalvars>>
    /\ UNCHANGED threadvars

\* a call of normalize_part_number, and of it again on what it returned
NormalizeCall(part) ==
    /\ Idle
    /\ last' = [op |-> "normalize", arg |-> part,
                ret |-> normalize_part_number(part),
                again |-> normalize_part_number(normalize_part_number(part))]
    /\ UNCHANGED <<maps, loadvars, mainvars, fmvars, evalvars>>
    /\ UNCHANGED threadvars

\* a call of generate_decimal_variants
VariantsCall(original_input) ==
    /\ Idle
    /\ last' = [op |-> "variants", arg |-> original_input,
                ret |-> generate_decimal_variants(original_input)]
    /\ UNCHANGED <<maps, loadvars, mainvars, fmvars, evalvars>>
    /\ UNCHANGED threadvars

\* the map of DataCaches that t names
MapOf(t) ==
    CASE t = "insmfh" -> insmfh [] t = "ininter" -> ininter [] t = "vendor_map" -> vendor_map

\* a call of load_insmfh, load_ininter or load_vendor_map on the cache from
\* outside evaluate_part; the frame of a finished evaluate_part is gone by then
LoadCall(t) ==
    /\ Idle
    /\ main_pc = "none"
    /\ \E ok \in QueryOutcomes("iseries") :
          /\ IF load_needed(t)
             THEN Load(t, "call", ok)
             ELSE UNCHANGED <<insmfh, ininter, vendor_map, loaded, load_log>>
          /\ pc' = IF load_needed(t) /\ load_raises(ok) THEN "raised" ELSE "idle"
          /\ last' = [op |-> "load", arg |-> t, was_loaded |-> t \in loaded,
                      changed |-> MapOf(t)' # MapOf(t)]
    /\ supplied' = None
    /\ candidate' = None
    /\ master' = None
    /\ result' = InitialResult(None)
    /\ variants' = << >>
    /\ calls' = << >>
    /\ fm_last' = NoStatusCall
    /\ UNCHANGED <<fm_table, rows, faults, fm_active_cache, fm_query_count, fm_lookups,
                   mainvars>>
    /\ UNCHANGED threadvars

---------------------------------------------------------------------------
(* main *)

\* lines 528-529: the loads main calls before its loop, in order
main_preloads_insmfh_only == <<"insmfh">>

main_preloads == <<"insmfh", "ininter">>

\* lines 511-518: nothing to do without part numbers
MainStart ==
    /\ main_pc = "start"
    /\ main_pc' = IF part_numbers = << >> THEN "returned" ELSE "preload"
    /\ UNCHANGED <<maps, loadvars, fmvars, evalvars, last, part_numbers, results, csv>>
    /\ UNCHANGED threadvars

\* lines 528-529: the next load of main_preloads
MainPreload ==
    /\ main_pc = "preload"
    /\ LET k == Cardinality({e \in BagToSet(load_log) : e.within = "main"}) + 1
           t == main_preloads[k]
       IN \E ok \in QueryOutcomes("iseries") :
             /\ IF load_needed(t)
                THEN Load(t, "main", ok)
                ELSE UNCHANGED <<insmfh, ininter, vendor_map, loaded, load_log>>
             /\ IF load_needed(t) /\ load_raises(ok)
                THEN Raise
                ELSE /\ main_pc' = IF k = Len(main_preloads) THEN "loop" ELSE "preload"
                     /\ UNCHANGED <<pc, part_numbers, results, csv>>
    /\ UNCHANGED <<fm_table, rows, faults, fmvars, last, supplied, candidate,
                   master, result, variants, calls>>
    /\ UNCHANGED threadvars

\* line 534: evaluate_part on the next part number
MainEvaluate ==
    /\ main_pc = "loop"
    /\ pc = "idle"
    /\ Len(results) < Len(part_numbers)
    /\ EvaluateStart(part_numbers[Len(results) + 1])

\* line 535: the result returned is appended
MainAppend_prepend ==
    /\ main_pc = "loop"
    /\ pc = "returned"
    /\ results' = <<result>> \o results
    /\ pc' = "idle"
    /\ UNCHANGED <<maps, loadvars, fmvars, last, supplied, candidate, master, result,
                   variants, calls, main_pc, part_numbers, csv>>
    /\ UNCHANGED threadvars

MainAppend ==
    /\ main_pc = "loop"
    /\ pc = "returned"
    /\ results' = Append(results, result)
    /\ pc' = "idle"
    /\ UNCHANGED <<maps, loadvars, fmvars, last, supplied, candidate, master, result,
                   variants, calls, main_pc, part_numbers, csv>>
    /\ UNCHANGED threadvars

\* the output file before write_csv
NoCsv == [written |-> FALSE, rows |-> << >>]

\* lines 443-452: the row write_csv writes for a result
csv_row(r) ==
    LET OrEmpty(x) == IF Truthy(x) THEN x ELSE EmptyStr IN
    [Supplied |-> r.Supplied, Vendor |-> r.VendorFlag,
     VendorInternal |-> OrEmpty(r.VendorInternal),
     LeadingZeroRemoved |-> OrEmpty(r.LeadingZeroRemoved),
     DecimalVariantUsed |-> OrEmpty(r.DecimalVariantUsed),
     AS400Found |-> r.AS400Found, MasterNumber |-> OrEmpty(r.MasterNumber),
     FMFound |-> r.FMFound, FMActive |-> r.FMActive]

\* line 538: after the loop the results are written
MainWriteCsv ==
    /\ main_pc = "loop"
    /\ pc = "idle"
    /\ Len(results) = Len(part_numbers)
    /\ csv' = [written |-> TRUE, rows |-> [i \in 1..Len(results) |-> csv_row(results[i])]]
    /\ main_pc' = "returned"
    /\ UNCHANGED <<maps, loadvars, fmvars, evalvars, last, part_numbers, results>>
    /\ UNCHANGED threadvars

---------------------------------------------------------------------------
(* Specifications *)

\* the dictionaries with at most n keys, keys from D and values from V
PartialMaps(D, V, n) ==
    UNION {[S -> V] : S \in {T \in SUBSET D : Cardinality(T) <= n}}

\* a fresh DataCaches with no evaluate_part call running
InitIdle ==
    /\ fm_active_cache = EmptyDict
    /\ fm_query_count = EmptyDict
    /\ fm_lookups = {}
    /\ fm_last = NoStatusCall
    /\ pc = "idle"
    /\ supplied = None
    /\ candidate = None
    /\ master = None
    /\ result = InitialResult(None)
    /\ variants = << >>
    /\ calls = << >>
    /\ last = [op |-> "none"]

\* the callers that share one DataCaches
Threads == {"T1", "T2"}

\* a thread outside evaluate_part
IdleThread ==
    [pc |-> "idle", supplied |-> None, fetched |-> << >>, internal |-> None,
     master |-> None, result |-> InitialResult(None)]

\* no result set on the cursor of either connection
NoCursor == [iseries |-> << >>, filemaker |-> << >>]

\* one caller only: no thread runs, and calls follow one another
InitNoThreads ==
    /\ threads = [t \in Threads |-> IdleThread]
    /\ cursor = NoCursor
    /\ serialized = TRUE

\* the three maps are loaded and main is not running
InitLoaded ==
    /\ InitNoThreads
    /\ rows = [t \in Tables |-> << >>]
    /\ faults = {}
    /\ loaded = Tables
    /\ load_log = EmptyBag
    /\ main_pc = "none"
    /\ part_numbers = << >>
    /\ results = << >>
    /\ csv = NoCsv

(* The supersession walk on every supersession map of at most MaxSuper rows. *)
MaxSuper == 3
WalkKeys == {<<"A">>, <<"B">>, <<"C">>, <<"D">>}
WalkStarts == {None, << >>, <<"-">>, <<"A">>, <<"a">>, <<"-", "B">>, <<"C">>, <<"D">>}

InitWalk ==
    /\ insmfh \in PartialMaps(WalkKeys, WalkKeys \cup {None, EmptyStr}, MaxSuper)
    /\ ininter = EmptyDict
    /\ vendor_map = EmptyDict
    /\ fm_table = EmptyDict
    /\ InitIdle
    /\ InitLoaded

NextWalk == \E start \in WalkStarts : WalkCall(start)

SpecWalk == InitWalk /\ [][NextWalk]_vars

(* resolve_master_number on every supersession map over ResolveKeys and every *)
(* interchange map of at most MaxInter rows.                                  *)
MaxInter == 1
ResolveKeys == {<<"A">>, <<"B">>, <<"C">>}
OutsideKey == <<"D">>
ResolveInputs == {<< >>, <<"-">>, <<"A">>, <<"a">>, <<"B">>, <<"C">>, <<"D">>}

InitResolve ==
    /\ insmfh \in PartialMaps(ResolveKeys,
                              ResolveKeys \cup {OutsideKey, None, EmptyStr},
                              Cardinality(ResolveKeys))
    /\ ininter \in PartialMaps(ResolveKeys, ResolveKeys \cup {OutsideKey}, MaxInter)
    /\ vendor_map = EmptyDict
    /\ fm_table = EmptyDict
    /\ InitIdle
    /\ InitLoaded

NextResolve == \E snschr \in ResolveInputs : ResolveCall(snschr)

SpecResolve == InitResolve /\ [][NextResolve]_vars

(* normalize_part_number and generate_decimal_variants on a string of at most *)
(* MaxRawLen characters of RawChars, or the example of the comment above      *)
(* DECIMAL_ALLOWED_PAD_LENGTHS, or None: the argument is held in supplied.    *)
MaxRawLen == 4
RawChars == {"0", "1", ".", "-", "a", "A", SupTwo}
ExampleDecimal == <<"4", "7", "9", "8", "8", "7", "8", ".", "0", "1">>
RawStrings == UNION {[1..n -> RawChars] : n \in 0..MaxRawLen} \cup {ExampleDecimal}

InitStrings ==
    /\ insmfh = EmptyDict
    /\ ininter = EmptyDict
    /\ vendor_map = EmptyDict
    /\ fm_table = EmptyDict
    /\ fm_active_cache = EmptyDict
    /\ fm_query_count = EmptyDict
    /\ fm_lookups = {}
    /\ fm_last = NoStatusCall
    /\ pc = "idle"
    /\ supplied \in RawStrings \cup {None}
    /\ candidate = None
    /\ master = None
    /\ result = InitialResult(None)
    /\ variants = << >>
    /\ calls = << >>
    /\ last = [op |-> "none"]
    /\ InitLoaded

NextStrings ==
    \/ NormalizeCall(supplied)
    \/ \E original_input \in {supplied} \ {None} : VariantsCall(original_input)

SpecStrings == InitStrings /\ [][NextStrings]_vars

(* evaluate_part and fm_find_active_flag on one cache. *)
MaxSuperEval == 2
EvalSuperKeys == {<<"1">>, <<"1", "0">>, <<"1", "0", "0">>, <<"1", "0", "0", "0">>}
EvalSuperValues == {None, <<"1">>}
EvalInterMaps ==
    {EmptyDict, [k \in {<<"0", "1">>} |-> <<"D">>], [k \in {<<"1", "0", "0">>} |-> <<"1">>],
     [k \in {<<"0">>} |-> <<"D">>]}
EvalVendorMaps ==
    {EmptyDict, [k \in {<<"1">>} |-> <<"1">>]}
    \cup {[k \in {v} |-> <<"0", "1">>] : v \in {<<"V", "1">>, <<"1", "0">>}}
EvalFmTables ==
    {EmptyDict} \cup {[k \in {<<"1">>} |-> t] : t \in {"Yes", "No"}}
SuppliedInputs ==
    {<< >>, <<"-">>, <<"1">>, <<"0", "1">>, <<"0">>, <<"1", ".", "0">>,
     <<"v", "-", "1">>, <<"0", ".", "1">>, <<".", SupTwo>>, <<"0", "0", "1">>}
StatusInputs == {<<"-">>, <<"1">>, <<"-", "1">>}

Init ==
    /\ insmfh \in PartialMaps(EvalSuperKeys, EvalSuperValues, MaxSuperEval)
    /\ ininter \in EvalInterMaps
    /\ vendor_map \in EvalVendorMaps
    /\ fm_table \in EvalFmTables
    /\ InitIdle
    /\ InitLoaded

Next ==
    \/ \E s \in SuppliedInputs : EvaluateStart(s)
    \/ EvaluateDirect
    \/ EvaluateLeadingZero
    \/ EvaluateDecimal
    \/ EvaluateDecimalVariant
    \/ EvaluateStatus
    \/ \E s \in StatusInputs : StatusCall(s)

Spec == Init /\ [][Next]_vars

(* A fresh DataCaches used through load_insmfh, load_ininter, load_vendor_map *)
(* and evaluate_part in any order.  The three tables hold the same rows, at   *)
(* most MaxRows of RowPool; each AS/400 query succeeds or fails.              *)
MaxRows == 2
RowPool ==
    {<<<<"a">>, <<"d">>>>, <<<<"A">>, <<"v">>>>, <<<<"-">>, <<"d">>>>,
     <<<<"a">>, None>>, <<<<"a">>, <<"-">>>>}
RowSeqs == UNION {[1..n -> RowPool] : n \in 0..MaxRows}
LoadInputs == {<<"a">>, <<".", "0">>}

\* a fresh DataCaches: lines 72-77
InitFresh ==
    /\ InitNoThreads
    /\ insmfh = EmptyDict
    /\ ininter = EmptyDict
    /\ vendor_map = EmptyDict
    /\ loaded = {}
    /\ load_log = EmptyBag
    /\ results = << >>
    /\ csv = NoCsv
    /\ InitIdle

InitLoad ==
    /\ \E rs \in RowSeqs : rows = [t \in Tables |-> rs]
    /\ faults = {"iseries"}
    /\ fm_table = EmptyDict
    /\ main_pc = "none"
    /\ part_numbers = << >>
    /\ InitFresh

NextLoad ==
    \/ \E t \in Tables : LoadCall(t)
    \/ \E s \in LoadInputs : EvaluateStart(s)
    \/ LazyLoad
    \/ EvaluateDirect
    \/ EvaluateLeadingZero
    \/ EvaluateDecimal
    \/ EvaluateDecimalVariant
    \/ EvaluateStatus

SpecLoad == InitLoad /\ [][NextLoad]_vars

(* main on at most MaxParts part numbers; queries on either connection may    *)
(* fail.                                                                      *)
MaxParts == 2
BatchInputs == {<<"-">>, <<"1">>, <<"v">>, <<"0", ".", "1">>}
BatchRows ==
    {[t \in Tables |-> << >>],
     [insmfh |-> << <<<<"1">>, None>> >>, ininter |-> << >>,
      vendor_map |-> << <<<<"v">>, <<"1">>>> >>]}
BatchFmTables == {EmptyDict, [k \in {<<"1">>} |-> "Yes"]}

InitBatch ==
    /\ rows \in BatchRows
    /\ faults \in SUBSET {"iseries", "filemaker"}
    /\ fm_table \in BatchFmTables
    /\ main_pc = "start"
    /\ part_numbers \in UNION {[1..n -> BatchInputs] : n \in 0..MaxParts}
    /\ InitFresh

NextBatch ==
    \/ MainStart
    \/ MainPreload
    \/ MainEvaluate
    \/ EvaluateDirect
    \/ EvaluateLeadingZero
    \/ EvaluateDecimal
    \/ EvaluateDecimalVariant
    \/ EvaluateStatus
    \/ EvaluateStatusFails
    \/ MainAppend
    \/ MainWriteCsv

SpecBatch == InitBatch /\ [][NextBatch]_vars

---------------------------------------------------------------------------
(* Concurrent callers *)

(* Two threads call evaluate_part on one DataCaches, as main would after its  *)
(* preloads if its loop ran in threads: INSMFH and ININTER are loaded, the    *)
(* vendor map and the status memo are not.  A step is one statement of        *)
(* load_vendor_map or fm_find_active_flag; the stages between them read only  *)
(* the two loaded maps and are one step.                                       *)

\* lines 370-403, the loop over the decimal variants: the first variant from
\* position i on that resolves, None when none does
RECURSIVE decimal_loop(_, _, _, _)
decimal_loop(inter, super, vs, i) ==
    IF i > Len(vs) THEN None
    ELSE LET norm_variant == normalize_part_number(vs[i]) IN
         IF Truthy(norm_variant) /\ Truthy(resolve_master_number(inter, super, norm_variant))
         THEN norm_variant
         ELSE decimal_loop(inter, super, vs, i + 1)

\* lines 360-408: evaluate_part from the vendor check to the found flags, on
\* loaded maps: the master and the result dictionary before the status
resolve_stages(inter, super, s, vendor_internal) ==
    LET flag == Truthy(vendor_internal)
        cand == IF flag THEN vendor_internal ELSE normalize_part_number(s)
        direct == IF Truthy(cand) THEN resolve_master_number(inter, super, cand) ELSE None
        stripped == IF Truthy(cand) THEN LStripZero(cand) ELSE EmptyStr
        m2 == IF leading_zero_applies(direct, cand) /\ Truthy(stripped)
              THEN resolve_master_number(inter, super, stripped)
              ELSE None
        used == IF decimal_applies(IF Truthy(m2) THEN m2 ELSE direct, flag)
                THEN decimal_loop(inter, super, generate_decimal_variants(s), 1)
                ELSE None
        m == IF Truthy(direct) THEN direct
             ELSE IF Truthy(m2) THEN m2
             ELSE IF used # None THEN resolve_master_number(inter, super, used)
             ELSE None
    IN [master |-> m,
        result |-> [InitialResult(s) EXCEPT
                       !.VendorFlag = flag,
                       !.VendorInternal = IF flag THEN vendor_internal ELSE None,
                       !.LeadingZeroRemoved = IF Truthy(m2) THEN stripped ELSE None,
                       !.DecimalVariantUsed = used,
                       !.AS400Found = Truthy(m),
                       !.MasterNumber = IF Truthy(m) THEN m ELSE None]]

\* line 197: the result set of the SELECT of fm_find_active_flag
fm_result_set(table, key) == IF key \in DOMAIN table THEN <<table[key]>> ELSE << >>

\* lines 198-202: fetchone on a result set, read as the flag
fm_row_flag(rs) ==
    IF rs = << >> THEN None ELSE IF Head(rs) = "Yes" THEN PyTrue ELSE PyFalse

\* the positions inside the property vendor_map, past its check
InVendorMap == {"mark", "execute", "fetch", "fill", "get"}

\* the positions inside fm_find_active_flag, past its memo check
InStatus == {"fm_execute", "fm_fetch"}

\* lines 533-535: callers that serialize let one of them at a time into a
\* lazy map; callers that do not let any thread in
may_enter_always(t, section) == TRUE

may_enter(t, section) ==
    serialized => \A u \in Threads \ {t} : threads[u].pc \notin section

\* line 331: a thread calls evaluate_part
ThreadEvaluate(t, s) ==
    /\ threads[t].pc = "idle"
    /\ threads' = [threads EXCEPT ![t] = [IdleThread EXCEPT !.pc = "vendor",
                                                            !.supplied = s]]
    /\ UNCHANGED <<maps, loadvars, mainvars, fmvars, evalvars, last, cursor, serialized>>

\* lines 166-171, 156, 137: resolve_vendor_internal up to the checks of the
\* property and of load_vendor_map; a map that is not None is read at once
ThreadVendorRead(t) ==
    LET th == threads[t]
        key == normalize_part_number(th.supplied)
    IN /\ th.pc = "vendor"
       /\ Truthy(key) => may_enter(t, InVendorMap)
       /\ threads' = [threads EXCEPT ![t] =
             IF Truthy(key) /\ load_needed("vendor_map")
             THEN [th EXCEPT !.pc = "mark"]
             ELSE [th EXCEPT !.pc = "resolve",
                             !.internal = resolve_vendor_internal(vendor_map, th.supplied)]]
       /\ UNCHANGED <<maps, loadvars, mainvars, fmvars, evalvars, last, cursor, serialized>>

\* line 141: the map becomes an empty dictionary, no longer None
ThreadLoadMark(t) ==
    /\ threads[t].pc = "mark"
    /\ vendor_map' = EmptyDict
    /\ loaded' = loaded \cup {"vendor_map"}
    /\ threads' = [threads EXCEPT ![t].pc = "execute"]
    /\ UNCHANGED <<insmfh, ininter, fm_table, rows, faults, load_log, mainvars, fmvars,
                   evalvars, last, cursor, serialized>>

\* line 143: the SELECT on the shared AS/400 cursor
ThreadLoadExecute(t) ==
    /\ threads[t].pc = "execute"
    /\ cursor' = [cursor EXCEPT !.iseries = rows.vendor_map]
    /\ load_log' = load_log (+) SetToBag({[table |-> "vendor_map",
                                           within |-> "evaluate_part",
                                           failed |-> FALSE]})
    /\ threads' = [threads EXCEPT ![t].pc = "fetch"]
    /\ UNCHANGED <<maps, rows, faults, loaded, mainvars, fmvars, evalvars, last,
                   serialized>>

\* line 144: fetchall takes the rows left on the shared cursor
ThreadLoadFetch(t) ==
    /\ threads[t].pc = "fetch"
    /\ threads' = [threads EXCEPT ![t].pc = "fill", ![t].fetched = cursor.iseries]
    /\ cursor' = [cursor EXCEPT !.iseries = << >>]
    /\ UNCHANGED <<maps, loadvars, mainvars, fmvars, evalvars, last, serialized>>

\* lines 145-152: one iteration of the loop over the fetched rows, or its end
ThreadLoadFill(t) ==
    LET th == threads[t] IN
    /\ th.pc = "fill"
    /\ IF th.fetched = << >>
       THEN /\ threads' = [threads EXCEPT ![t].pc = "get"]
            /\ UNCHANGED vendor_map
       ELSE /\ vendor_map' = load_vendor_map_rows(vendor_map, <<Head(th.fetched)>>)
            /\ threads' = [threads EXCEPT ![t].fetched = Tail(th.fetched)]
    /\ UNCHANGED <<insmfh, ininter, fm_table, loadvars, mainvars, fmvars, evalvars, last,
                   cursor, serialized>>

\* lines 158, 169: the property returns the map and the key is read in it
ThreadVendorGet(t) ==
    LET th == threads[t] IN
    /\ th.pc = "get"
    /\ threads' = [threads EXCEPT ![t] =
          [th EXCEPT !.pc = "resolve",
                     !.internal = resolve_vendor_internal(vendor_map, th.supplied)]]
    /\ UNCHANGED <<maps, loadvars, mainvars, fmvars, evalvars, last, cursor, serialized>>

\* lines 360-408: the stages on the loaded maps; without a master the result
\* is returned
ThreadResolve(t) ==
    LET th == threads[t]
        r == resolve_stages(ininter, insmfh, th.supplied, th.internal)
    IN /\ th.pc = "resolve"
       /\ threads' = [threads EXCEPT ![t] =
             [th EXCEPT !.pc = IF Truthy(r.master) THEN "fm_check" ELSE "returned",
                        !.master = r.master,
                        !.result = r.result]]
       /\ UNCHANGED <<maps, loadvars, mainvars, fmvars, evalvars, last, cursor, serialized>>

\* lines 186-191: fm_find_active_flag up to its memo check
ThreadStatusCheck(t) ==
    LET th == threads[t]
        key == normalize_part_number(th.master)
    IN /\ th.pc = "fm_check"
       /\ may_enter(t, InStatus)
       /\ IF ~Truthy(key)
          THEN /\ threads' = [threads EXCEPT ![t] =
                     [th EXCEPT !.pc = "returned",
                                !.result = record_fm_status(th.result, None)]]
               /\ UNCHANGED fm_lookups
          ELSE /\ fm_lookups' = fm_lookups \cup {key}
               /\ threads' = [threads EXCEPT ![t] =
                     IF fm_cache_hit(fm_active_cache, key)
                     THEN [th EXCEPT !.pc = "returned",
                                     !.result = record_fm_status(th.result,
                                                                 fm_active_cache[key])]
                     ELSE [th EXCEPT !.pc = "fm_execute"]]
       /\ UNCHANGED <<maps, loadvars, mainvars, fm_active_cache, fm_query_count, fm_last,
                      evalvars, last, cursor, serialized>>

\* line 197: the SELECT on the shared FileMaker cursor
ThreadStatusExecute(t) ==
    LET key == normalize_part_number(threads[t].master) IN
    /\ threads[t].pc = "fm_execute"
    /\ cursor' = [cursor EXCEPT !.filemaker = fm_result_set(fm_table, key)]
    /\ fm_query_count' = DictSet(fm_query_count, key,
                                 DictGetDefault(fm_query_count, key, 0) + 1)
    /\ threads' = [threads EXCEPT ![t].pc = "fm_fetch"]
    /\ UNCHANGED <<maps, loadvars, mainvars, fm_active_cache, fm_lookups, fm_last,
                   evalvars, last, serialized>>

\* lines 198-205, 409-416: fetchone on the shared cursor, the memo written, the
\* flag recorded in the result
ThreadStatusFetch(t) ==
    LET th == threads[t]
        key == normalize_part_number(th.master)
        value == fm_row_flag(cursor.filemaker)
    IN /\ th.pc = "fm_fetch"
       /\ cursor' = [cursor EXCEPT !.filemaker =
                        IF cursor.filemaker = << >> THEN << >> ELSE Tail(cursor.filemaker)]
       /\ fm_active_cache' = DictSet(fm_active_cache, key, value)
       /\ threads' = [threads EXCEPT ![t] =
             [th EXCEPT !.pc = "returned",
                        !.result = record_fm_status(th.result, value)]]
       /\ UNCHANGED <<maps, loadvars, mainvars, fm_query_count, fm_lookups, fm_last,
                      evalvars, last, serialized>>

(* Two concurrent evaluate_part calls over every vendor table of at most      *)
(* MaxVendorRows rows, with and without serialization by the callers.         *)
MaxVendorRows == 2
VendorRowPool == {<<<<"v">>, <<"1">>>>, <<<<"a">>, <<"1">>>>}
ThreadInputs == {<<"v">>, <<"a">>, <<"1">>}

InitThreads ==
    /\ \E vs \in UNION {[1..n -> VendorRowPool] : n \in 0..MaxVendorRows},
          is \in {<< >>, <<<<<<"v">>, <<"1">>>>>>} :
          rows = [insmfh |-> <<<<<<"1">>, None>>>>, ininter |-> is, vendor_map |-> vs]
    /\ insmfh = load_insmfh_rows(EmptyDict, rows.insmfh)
    /\ ininter = load_ininter_rows(EmptyDict, rows.ininter)
    /\ vendor_map = EmptyDict
    /\ loaded = {"insmfh", "ininter"}
    /\ load_log = EmptyBag
    /\ faults = {}
    /\ fm_table \in {EmptyDict, [k \in {<<"1">>} |-> "Yes"]}
    /\ main_pc = "none"
    /\ part_numbers = << >>
    /\ results = << >>
    /\ csv = NoCsv
    /\ InitIdle
    /\ threads = [t \in Threads |-> IdleThread]
    /\ cursor = NoCursor
    /\ serialized \in BOOLEAN

NextThreads ==
    \/ \E t \in Threads, s \in ThreadInputs : ThreadEvaluate(t, s)
    \/ \E t \in Threads : ThreadVendorRead(t)
    \/ \E t \in Threads : ThreadLoadMark(t)
    \/ \E t \in Threads : ThreadLoadExecute(t)
    \/ \E t \in Threads : ThreadLoadFetch(t)
    \/ \E t \in Threads : ThreadLoadFill(t)
    \/ \E t \in Threads : ThreadVendorGet(t)
    \/ \E t \in Threads : ThreadResolve(t)
    \/ \E t \in Threads : ThreadStatusCheck(t)
    \/ \E t \in Threads : ThreadStatusExecute(t)
    \/ \E t \in Threads : ThreadStatusFetch(t)

SpecThreads == InitThreads /\ [][NextThreads]_vars

----------------------------------------------------------------------------
(* Properties *)

\* the replacement the supersession map gives k, None when k is terminal or no key
Successor(m, k) == IF Truthy(DictGet(m, k)) THEN m[k] ELSE None

\* k, its replacement, the replacement of that, ... : at most fuel + 1 keys
RECURSIVE Orbit(_, _, _)
Orbit(m, k, fuel) ==
    IF fuel = 0 \/ Successor(m, k) = None THEN <<k>>
    ELSE <<k>> \o Orbit(m, Successor(m, k), fuel - 1)

\* the supersession chain of k, long enough to show the first key met twice
Chain(m, k) == Orbit(m, k, Cardinality(DOMAIN m))

Repeats(c, j) == \E i \in 1..(j - 1) : c[i] = c[j]

\* the chain of k runs into a cycle
RunsIntoCycle(m, k) == \E j \in 1..Len(Chain(m, k)) : Repeats(Chain(m, k), j)

\* the position in the chain of the first key met twice
FirstRepeat(c) == CHOOSE j \in 1..Len(c) : Repeats(c, j) /\ \A h \in 1..(j - 1) : ~Repeats(c, h)

Acyclic(m) == \A k \in DOMAIN m : ~RunsIntoCycle(m, k)

\* the lookups evaluate_part makes when none of them succeeds, in order
ExpectedLookups ==
    LET stripped == LStripZero(candidate)
        vs == generate_decimal_variants(supplied)
        norm == [i \in 1..Len(vs) |->
                    [stage |-> "decimal", key |-> normalize_part_number(vs[i])]]
        NonEmpty(c) == Truthy(c.key)
    IN (IF Truthy(candidate) THEN <<[stage |-> "direct", key |-> candidate]>> ELSE << >>)
       \o (IF Truthy(candidate) /\ StartsWithZero(candidate) /\ Truthy(stripped)
           THEN <<[stage |-> "leading_zero", key |-> stripped]>> ELSE << >>)
       \o SelectSeq(norm, NonEmpty)

\* C1: in evaluate_part the resolve_master_number lookups are made in the order
\* direct candidate, leading-zero-stripped candidate, decimal variants in generation
\* order; a lookup is made only when every earlier one returned no master, and the
\* master number is the one returned by the first lookup that succeeds.
C1_LookupOrder ==
    pc # "idle" =>
    /\ Len(calls) <= Len(ExpectedLookups)
    /\ \A i \in 1..Len(calls) :
          /\ calls[i].stage = ExpectedLookups[i].stage
          /\ calls[i].key = ExpectedLookups[i].key
          /\ i < Len(calls) => calls[i].ret = None
    /\ master = IF calls = << >> THEN None ELSE calls[Len(calls)].ret
    /\ pc = "returned" =>
          /\ result.MasterNumber = master
          /\ result.AS400Found = (master # None)

C1_Witness ==
    /\ pc = "returned"
    /\ Len(calls) = 4
    /\ calls[1].stage = "direct"
    /\ calls[4].stage = "decimal"
    /\ calls[4].ret # None
    /\ result.MasterNumber = calls[4].ret
    /\ resolve_master_number(ininter, insmfh, calls[3].key) = None

\* C2: for a non-empty normalized key, resolve_master_number takes base =
\* ininter[key] if key is an interchange child else key, master = walk(base), and
\* returns master exactly when key is an interchange child or master is a source
\* key of the supersession map, and None otherwise; an interchange child always
\* resolves to walk(parent), also when the parent is in no map.
C2_ResolveMaster ==
    last.op = "resolve" =>
    LET key == normalize_part_number(last.arg)
        base == IF key \in DOMAIN ininter THEN ininter[key] ELSE key
        m == resolve_supersession_chain(insmfh, base)
    IN Truthy(key) =>
       /\ last.ret = IF key \in DOMAIN ininter \/ m \in DOMAIN insmfh THEN m ELSE None
       /\ key \in DOMAIN ininter =>
             last.ret = resolve_supersession_chain(insmfh, ininter[key])

C2_Witness ==
    /\ last.op = "resolve"
    /\ last.arg = <<"a">>
    /\ <<"A">> \in DOMAIN ininter
    /\ ininter[<<"A">>] = OutsideKey
    /\ \A k \in DOMAIN insmfh : insmfh[k] # OutsideKey
    /\ last.ret = OutsideKey

\* C3: resolve_master_number never resolves an unrecognized key to itself: a key
\* that is neither an interchange child nor a source key of the supersession map
\* gets None.
C3_UnrecognizedIsNone ==
    last.op = "resolve" =>
    LET key == normalize_part_number(last.arg) IN
    (key \notin DOMAIN ininter /\ key \notin DOMAIN insmfh) => last.ret = None

C3_Witness ==
    /\ last.op = "resolve"
    /\ last.arg = OutsideKey
    /\ \E k \in DOMAIN insmfh : insmfh[k] = OutsideKey
    /\ \E k \in DOMAIN ininter : ininter[k] = OutsideKey
    /\ last.ret = None

\* C4: for a vendor-mapped input the decimal stage is skipped: DecimalVariantUsed
\* is None and no decimal variant is passed to resolve_master_number, also when
\* the direct and the leading-zero stage both failed.
C4_NoDecimalForVendor ==
    result.VendorFlag =>
    /\ result.DecimalVariantUsed = None
    /\ pc # "decimal_loop"
    /\ \A i \in 1..Len(calls) : calls[i].stage # "decimal"

C4_Witness ==
    /\ pc = "returned"
    /\ result.VendorFlag
    /\ ~result.AS400Found
    /\ Len(calls) = 2
    /\ \E i \in 1..Len(generate_decimal_variants(supplied)) :
          resolve_master_number(ininter, insmfh,
              normalize_part_number(generate_decimal_variants(supplied)[i])) # None

\* C5: on every supersession map, cycles and self-loops included, the walk ends
\* after at most as many advances as the map has rows and returns a key it has
\* been at; on the 3-cycle A -> B -> C -> A started at A it returns A, B or C.
C5_WalkBounded ==
    last.op = "walk" =>
    /\ last.advances <= Cardinality(DOMAIN insmfh)
    /\ \E i \in 1..Len(last.path) : last.ret = last.path[i]
    /\ Len(last.path) = last.advances + 1
    /\ last.path[1] = normalize_part_number(last.arg)
    /\ \A i \in 1..last.advances : last.path[i + 1] = Successor(insmfh, last.path[i])

ThreeCycle ==
    /\ DOMAIN insmfh = {<<"A">>, <<"B">>, <<"C">>}
    /\ insmfh[<<"A">>] = <<"B">>
    /\ insmfh[<<"B">>] = <<"C">>
    /\ insmfh[<<"C">>] = <<"A">>

C5_Witness ==
    /\ ThreeCycle
    /\ last.op = "walk"
    /\ last.arg = <<"a">>
    /\ last.advances = 3
    /\ last.ret \in {<<"A">>, <<"B">>, <<"C">>}

\* C6 as claimed: when the walk meets a cycle it returns the last key reached
\* before the cycle was detected, the key whose replacement was already visited
\* (C for A -> B -> C -> A started at A).
C6_ReturnsKeyBeforeCycle ==
    LET key == normalize_part_number(last.arg)
        c == Chain(insmfh, key)
    IN (last.op = "walk" /\ RunsIntoCycle(insmfh, key)) =>
       last.ret = c[FirstRepeat(c) - 1]

\* C6 amended: the visited check is made on the current key after the advance,
\* so a walk that meets a cycle returns the already-visited key, the first key
\* of its chain met twice (A for A -> B -> C -> A started at A).
C6_ReturnsRevisitedKey ==
    LET key == normalize_part_number(last.arg)
        c == Chain(insmfh, key)
    IN (last.op = "walk" /\ RunsIntoCycle(insmfh, key)) =>
       /\ last.ret = c[FirstRepeat(c)]
       /\ last.advances = FirstRepeat(c) - 1
       /\ (ThreeCycle /\ key = <<"A">>) => last.ret = <<"A">>

C6_Witness ==
    /\ ThreeCycle
    /\ last.op = "walk"
    /\ last.arg = <<"A">>
    /\ last.ret = <<"A">>
    /\ last.path = <<<<"A">>, <<"B">>, <<"C">>, <<"A">>>>

\* C7: on an acyclic supersession map the walk returns "" when start normalizes
\* to "", normalize(start) when that is no source key, and otherwise the first
\* key of the chain whose value is empty or None or which is no source key; the
\* key returned is non-empty whenever normalize(start) is.
C7_AcyclicWalk ==
    LET key == normalize_part_number(last.arg)
        c == Chain(insmfh, key)
    IN (last.op = "walk" /\ Acyclic(insmfh)) =>
       /\ key = EmptyStr => last.ret = EmptyStr
       /\ (key # EmptyStr /\ key \notin DOMAIN insmfh) => last.ret = key
       /\ key \in DOMAIN insmfh =>
             /\ last.ret = c[Len(c)]
             /\ last.ret \notin DOMAIN insmfh \/ ~Truthy(insmfh[last.ret])
             /\ \A i \in 1..(Len(c) - 1) : c[i] \in DOMAIN insmfh /\ Truthy(insmfh[c[i]])
       /\ key # EmptyStr => Truthy(last.ret)

C7_Witness ==
    /\ Acyclic(insmfh)
    /\ last.op = "walk"
    /\ last.arg = <<"-", "B">>
    /\ last.advances = 2
    /\ last.ret \in DOMAIN insmfh
    /\ insmfh[last.ret] = EmptyStr

\* C8: status lookups are memoized per normalized key: the SELECTs sent to
\* FileMaker are one for each distinct non-empty normalized key looked up, so a
\* repeated key, also one whose answer was None and also one written differently,
\* sends no second SELECT.
C8_OneQueryPerKey ==
    /\ DOMAIN fm_query_count = fm_lookups
    /\ \A k \in DOMAIN fm_query_count : fm_query_count[k] = 1
    /\ DOMAIN fm_active_cache = fm_lookups
    /\ fm_last.hit => ~fm_last.queried

C8_Witness ==
    /\ fm_last.arg = <<"-", "1">>
    /\ fm_last.key = <<"1">>
    /\ fm_last.hit
    /\ fm_last.value = None
    /\ fm_query_count[<<"1">>] = 1
    /\ ~fm_last.queried

\* C9: fm_find_active_flag returns None without a SELECT when its key normalizes
\* to ""; otherwise True when the matching record holds "Yes", False for any
\* other value of a matching record, and None when no record matches.
C9_StatusValue ==
    fm_last # NoStatusCall =>
    LET key == normalize_part_number(fm_last.arg) IN
    /\ fm_last.key = key
    /\ key = EmptyStr => (fm_last.value = None /\ ~fm_last.queried)
    /\ key # EmptyStr =>
          fm_last.value = IF key \notin DOMAIN fm_table THEN None
                          ELSE IF fm_table[key] = "Yes" THEN PyTrue
                          ELSE PyFalse
    /\ EmptyStr \notin DOMAIN fm_query_count

C9_Witness ==
    /\ fm_last.arg = <<"-", "1">>
    /\ fm_last.queried
    /\ fm_last.value = PyFalse
    /\ <<"1">> \in DOMAIN fm_table
    /\ fm_table[<<"1">>] = "No"

\* C10: evaluate_part asks for the FileMaker status exactly when a stage found a
\* master, and asks for that master; None is recorded as FMFound false with no
\* FMActive, False as FMFound true with FMActive false; with no master there is
\* no status lookup and FMFound is false.
C10_StatusOfMaster ==
    /\ pc \in {"direct", "leading_zero", "decimal", "decimal_loop", "status"} =>
          fm_last = NoStatusCall
    /\ pc = "returned" =>
          IF \E i \in 1..Len(calls) : calls[i].ret # None
          THEN /\ result.AS400Found
               /\ fm_last.arg = result.MasterNumber
               /\ fm_last.arg = calls[Len(calls)].ret
               /\ fm_last.key \in fm_lookups
               /\ result.FMFound = (fm_last.value # None)
               /\ result.FMActive = fm_last.value
               /\ fm_last.value # None =>
                     result.FMActive = IF fm_table[result.MasterNumber] = "Yes"
                                       THEN PyTrue ELSE PyFalse
          ELSE /\ ~result.AS400Found
               /\ fm_last = NoStatusCall
               /\ ~result.FMFound
               /\ result.FMActive = None

C10_Witness ==
    /\ pc = "returned"
    /\ result.AS400Found
    /\ result.MasterNumber # normalize_part_number(supplied)
    /\ result.FMFound
    /\ result.FMActive = PyFalse
    /\ fm_last.queried

\* the full-table SELECTs executed for the map t
LoadQueries(t) ==
    LET es == {e \in BagToSet(load_log) : e.table = t}
        RECURSIVE Sum(_)
        Sum(S) == IF S = {} THEN 0
                  ELSE LET e == CHOOSE x \in S : TRUE
                       IN CopiesIn(e, load_log) + Sum(S \ {e})
    IN Sum(es)

\* C11: the three loads are idempotent: over any sequence of load_insmfh,
\* load_ininter, load_vendor_map calls, lazy reads of the maps and evaluate_part
\* calls on one cache, the full-table query of each table is executed at most
\* once, and a load call on a map already loaded leaves the map unchanged.
C11_LoadsIdempotent ==
    /\ \A t \in Tables : LoadQueries(t) <= 1
    /\ \A t \in Tables : (t \in loaded) = (LoadQueries(t) = 1)
    /\ (last.op = "load" /\ last.was_loaded) => ~last.changed

C11_Witness ==
    /\ last.op = "load"
    /\ last.arg = "insmfh"
    /\ last.was_loaded
    /\ insmfh # EmptyDict
    /\ \E e \in BagToSet(load_log) : e.table = "insmfh" /\ e.within = "evaluate_part"
    /\ \E e \in BagToSet(load_log) : e.table = "ininter" /\ e.within = "call"
    /\ \A t \in Tables : LoadQueries(t) = 1

\* the rows of table t that load_* keeps: the key column normalizes to a
\* non-empty string and, but for the supersession table, so does the value column
KeptRows(t) ==
    {i \in 1..Len(rows[t]) :
        /\ normalize_part_number(rows[t][i][1]) # EmptyStr
        /\ t # "insmfh" => normalize_part_number(rows[t][i][2]) # EmptyStr}

\* the last kept row of table t whose key column normalizes to k
LastRow(t, k) ==
    CHOOSE i \in KeptRows(t) :
        /\ normalize_part_number(rows[t][i][1]) = k
        /\ \A j \in KeptRows(t) : normalize_part_number(rows[t][j][1]) = k => j <= i

\* C12: a map loaded without failure is the fold of its table's rows in order:
\* keys and values are normalized, a row whose key normalizes to "" is skipped
\* (an interchange or vendor row also when its value does), a supersession row
\* with no replacement is kept as key -> None, the last row of a key wins, and
\* no map ever has the key "".
C12_LoadedMapIsFold ==
    \A t \in Tables :
       /\ EmptyStr \notin DOMAIN MapOf(t)
       /\ (\E e \in BagToSet(load_log) : e.table = t /\ ~e.failed) =>
             /\ DOMAIN MapOf(t) =
                   {normalize_part_number(rows[t][i][1]) : i \in KeptRows(t)}
             /\ \A k \in DOMAIN MapOf(t) :
                   LET value == rows[t][LastRow(t, k)][2] IN
                   MapOf(t)[k] = IF t = "insmfh" /\ value \in {None, EmptyStr}
                                 THEN None
                                 ELSE normalize_part_number(value)

C12_Witness ==
    /\ rows.insmfh = << <<<<"A">>, <<"v">>>>, <<<<"a">>, None>> >>
    /\ \A t \in Tables : \E e \in BagToSet(load_log) : e.table = t /\ ~e.failed
    /\ insmfh = [k \in {<<"A">>} |-> None]
    /\ ininter = [k \in {<<"A">>} |-> <<"V">>]
    /\ vendor_map = ininter

\* a full-table load of this run has failed
LoadFailed == \E e \in BagToSet(load_log) : e.failed

\* C13: in main a failed full-table load is fatal: the exception ends main, no
\* further part number is evaluated (nothing at all happens after it) and
\* write_csv is never reached.
C13_LoadFailureFatal ==
    /\ [](LoadFailed => (main_pc = "aborted" /\ pc = "raised" /\ ~csv.written))
    /\ [][~LoadFailed]_vars

C13_Witness ==
    /\ \E e \in BagToSet(load_log) :
          e.failed /\ e.table = "vendor_map" /\ e.within = "evaluate_part"
    /\ Len(part_numbers) = 2
    /\ Len(results) = 1
    /\ main_pc = "aborted"
    /\ ~csv.written

\* C14: no stage of evaluate_part raises on a miss and evaluate_part returns a
\* result for every supplied string; a supplied string that normalizes to ""
\* gets AS400Found false, no master number and no FileMaker status query.
C14_EmptyInputNotFound ==
    /\ pc # "raised"
    /\ (pc = "returned" /\ normalize_part_number(supplied) = EmptyStr) =>
          /\ ~result.AS400Found
          /\ result.MasterNumber = None
          /\ fm_last = NoStatusCall

\* C15: a failure of the FileMaker status query while one part number is
\* evaluated only degrades that item: evaluate_part still returns a result and
\* main goes on.
C15_StatusFailureDegrades ==
    fm_last.failed => (pc # "raised" /\ main_pc # "aborted")

\* the evaluate_part calls main has started
Started == Len(results) + IF pc = "idle" THEN 0 ELSE 1

\* C16 as stated: in main all three full-table loads are done before the first
\* part number is evaluated, and no load is issued from within evaluate_part.
C16_AllLoadsUpFront ==
    /\ main_pc = "loop" => loaded = Tables
    /\ \A e \in BagToSet(load_log) : e.within = "main"

\* C16: in main the supersession and the interchange load are done once, up
\* front, before the first part number is evaluated, and never from within
\* evaluate_part; the vendor map is loaded lazily, at most once, from within
\* the first evaluate_part call whose part number normalizes to a non-empty
\* string.
C16_PreloadsUpFront ==
    /\ \A t \in Tables : LoadQueries(t) <= 1
    /\ \A e \in BagToSet(load_log) :
          e.within = IF e.table = "vendor_map" THEN "evaluate_part" ELSE "main"
    /\ main_pc \in {"loop", "returned"} /\ part_numbers # << >> =>
          /\ {"insmfh", "ininter"} \subseteq loaded
          /\ ("vendor_map" \in loaded) =
                (\E i \in 1..Started : normalize_part_number(part_numbers[i]) # EmptyStr)
    /\ main_pc \in {"start", "preload"} => Started = 0

C16_Witness ==
    /\ main_pc = "loop"
    /\ part_numbers = << <<"-">>, <<"1">> >>
    /\ Len(results) = 1
    /\ pc = "direct"
    /\ \E e \in BagToSet(load_log) :
          e.table = "vendor_map" /\ e.within = "evaluate_part" /\ ~e.failed
    /\ vendor_map # EmptyDict

\* C17: main produces exactly one result per part number, in input order: the
\* results so far are those of the first part numbers, and when main returns
\* result i (and row i of the CSV) has Supplied equal to part number i.
C17_OneResultPerInput ==
    /\ Len(results) <= Len(part_numbers)
    /\ \A i \in 1..Len(results) : results[i].Supplied = part_numbers[i]
    /\ main_pc = "returned" =>
          /\ Len(results) = Len(part_numbers)
          /\ part_numbers # << >> =>
                /\ csv.written
                /\ Len(csv.rows) = Len(part_numbers)
                /\ \A i \in 1..Len(csv.rows) : csv.rows[i].Supplied = part_numbers[i]

C17_Witness ==
    /\ main_pc = "returned"
    /\ part_numbers = << <<"1">>, <<"-">> >>
    /\ Len(results) = 2
    /\ results[1].MasterNumber = <<"1">>
    /\ ~results[2].AS400Found
    /\ csv.written

\* C18: normalize_part_number is total and idempotent: its result holds only
\* characters of [A-Z0-9], is the argument with every character outside
\* [A-Za-z0-9] removed and the rest uppercased, is "" for None and for "", and
\* normalizing it again changes nothing.
C18_Normalize ==
    last.op = "normalize" =>
    LET kept == IF last.arg = None THEN << >> ELSE SelectSeq(last.arg, IsAlnum) IN
    /\ \A i \in 1..Len(last.ret) : last.ret[i] \in UpperCase \cup AsciiDigit
    /\ Len(last.ret) = Len(kept)
    /\ \A i \in 1..Len(kept) :
          last.ret[i] = IF kept[i] \in LowerCase
                        THEN CHOOSE u \in UpperCase : Upper(kept[i]) = u
                        ELSE kept[i]
    /\ last.arg \in {None, EmptyStr} => last.ret = EmptyStr
    /\ last.again = last.ret

C18_Witness ==
    /\ last.op = "normalize"
    /\ last.arg = <<"a", "-", "0", SupTwo>>
    /\ last.ret = <<"A", "0">>
    /\ last.again = <<"A", "0">>

\* s followed by n zeros
RECURSIVE WithZeros(_, _)
WithZeros(s, n) == IF n = 0 THEN s ELSE WithZeros(s \o <<"0">>, n - 1)

\* C19: generate_decimal_variants returns no variant when its argument has no
\* ".", or the text after the first "." is empty or not all digits; otherwise,
\* split on the first ".", it returns before+after, then before+after padded
\* with zeros to 2 decimals if after is shorter than 2, then to 3 if shorter
\* than 3, without duplicates; "4798878.01" gives "479887801", "4798878010".
C19_Variants ==
    last.op = "variants" =>
    LET x == last.arg
        dots == {i \in 1..Len(x) : x[i] = "."}
        d == CHOOSE i \in dots : \A j \in dots : i <= j
        before == [i \in 1..(d - 1) |-> x[i]]
        after == [i \in 1..(Len(x) - d) |-> x[d + i]]
    IN /\ IF dots = {} \/ after = << >> \/ \E i \in 1..Len(after) : ~IsDigitChar(after[i])
          THEN last.ret = << >>
          ELSE last.ret =
                  <<before \o after>>
                  \o (IF Len(after) < 2
                      THEN <<WithZeros(before \o after, 2 - Len(after))>> ELSE << >>)
                  \o (IF Len(after) < 3
                      THEN <<WithZeros(before \o after, 3 - Len(after))>> ELSE << >>)
       /\ \A i, j \in 1..Len(last.ret) : last.ret[i] = last.ret[j] => i = j
       /\ x = ExampleDecimal =>
             last.ret = << <<"4", "7", "9", "8", "8", "7", "8", "0", "1">>,
                           <<"4", "7", "9", "8", "8", "7", "8", "0", "1", "0">> >>

C19_Witness ==
    /\ last.op = "variants"
    /\ last.arg = <<"1", ".", "0">>
    /\ last.ret = << <<"1", "0">>, <<"1", "0", "0">>, <<"1", "0", "0", "0">> >>

\* the keys evaluate_part can pass to resolve_master_number for a supplied
\* string that is no vendor number: its normalized form, that form without
\* leading zeros, its normalized decimal variants
LookupCandidates(s) ==
    LET key == normalize_part_number(s)
        vs == generate_decimal_variants(s)
    IN {key, LStripZero(key)} \cup {normalize_part_number(vs[i]) : i \in 1..Len(vs)}

DefaultFields ==
    /\ ~result.AS400Found
    /\ result.MasterNumber = None
    /\ ~result.VendorFlag
    /\ result.LeadingZeroRemoved = None
    /\ result.DecimalVariantUsed = None

\* C20 as stated: a supplied string whose normalized form is a key of none of
\* the three maps gets AS400Found false, no master number, VendorFlag false and
\* empty LeadingZeroRemoved and DecimalVariantUsed.
C20_AbsentInputNotFound ==
    LET key == normalize_part_number(supplied) IN
    (/\ pc = "returned"
     /\ key \notin DOMAIN vendor_map
     /\ key \notin DOMAIN ininter
     /\ key \notin DOMAIN insmfh) => DefaultFields

\* C20: a supplied string whose normalized form is no key of the vendor map and
\* none of whose lookup candidates (normalized form, that form without leading
\* zeros, normalized decimal variants) is a key of the interchange or of the
\* supersession map gets AS400Found false, no master number, VendorFlag false
\* and empty LeadingZeroRemoved and DecimalVariantUsed.
C20_NoCandidateNotFound ==
    (/\ pc = "returned"
     /\ normalize_part_number(supplied) \notin DOMAIN vendor_map
     /\ \A k \in LookupCandidates(supplied) :
           k \notin DOMAIN ininter /\ k \notin DOMAIN insmfh) => DefaultFields

C20_Witness ==
    /\ pc = "returned"
    /\ supplied = <<"1", ".", "0">>
    /\ vendor_map # EmptyDict
    /\ <<"1">> \in DOMAIN insmfh
    /\ Len(calls) = 4
    /\ DefaultFields


\* an evaluate_part call is past its vendor check
PastVendorCheck == pc \in {"direct", "leading_zero", "decimal", "decimal_loop", "status", "returned"}

\* the vendor stage but for the keys looked up
VendorStage ==
    LET key == normalize_part_number(supplied) IN
    IF key \in DOMAIN vendor_map
    THEN /\ result.VendorFlag
         /\ result.VendorInternal = vendor_map[key]
         /\ pc # "returned" => candidate = vendor_map[key]
         /\ \A i \in 1..Len(calls) :
               /\ calls[i].stage = "direct" => calls[i].key = vendor_map[key]
               /\ calls[i].stage = "leading_zero" =>
                     calls[i].key = LStripZero(vendor_map[key])
               /\ calls[i].stage \in {"direct", "leading_zero"}
    ELSE /\ ~result.VendorFlag
         /\ result.VendorInternal = None
         /\ pc # "returned" => candidate = key

\* C21 as stated: a supplied string whose normalized form is a vendor-map key
\* gets VendorFlag, VendorInternal and the candidate of the direct and the
\* leading-zero stage from the map, and that normalized form is never passed to
\* resolve_master_number; otherwise VendorFlag is false, VendorInternal is None
\* and the candidate is the normalized form.
C21_VendorKeyNeverLookedUp ==
    PastVendorCheck =>
    /\ VendorStage
    /\ normalize_part_number(supplied) \in DOMAIN vendor_map =>
          \A i \in 1..Len(calls) : calls[i].key # normalize_part_number(supplied)

\* C21: as above, but the keys passed to resolve_master_number for a vendor
\* number are the internal number (direct) and its zero-stripped form (leading
\* zero) and no other, so the normalized supplied string is looked up only when
\* it is one of these two.
C21_VendorCandidate ==
    PastVendorCheck =>
    /\ VendorStage
    /\ normalize_part_number(supplied) \in DOMAIN vendor_map =>
          \A i \in 1..Len(calls) :
             calls[i].key = normalize_part_number(supplied) =>
                normalize_part_number(supplied) \in
                   {result.VendorInternal, LStripZero(result.VendorInternal)}

C21_Witness ==
    /\ pc = "returned"
    /\ result.VendorFlag
    /\ result.VendorInternal = <<"0", "1">>
    /\ normalize_part_number(supplied) \in DOMAIN insmfh
    /\ Len(calls) = 2
    /\ ~result.AS400Found


\* the number of "0" characters s starts with
LeadingZeros(s) ==
    CHOOSE n \in 0..Len(s) :
        /\ \A i \in 1..n : s[i] = "0"
        /\ n < Len(s) => s[n + 1] # "0"

\* s without all the "0" characters it starts with
WithoutLeadingZeros(s) == [i \in 1..(Len(s) - LeadingZeros(s)) |-> s[LeadingZeros(s) + i]]

\* the resolve_master_number calls of the running evaluate_part made at a stage
CallsAt(stage) == SelectSeq(calls, LAMBDA c : c.stage = stage)

\* C22: the leading-zero stage makes a lookup exactly when the direct stage
\* found no master, the candidate starts with "0" and the candidate without
\* all its leading zeros is not empty; the lookup is of that stripped string,
\* and when it succeeds the result has LeadingZeroRemoved = stripped, AS400Found
\* and MasterNumber = resolve_master_number(stripped); otherwise
\* LeadingZeroRemoved stays None.
C22_LeadingZeroStage ==
    pc \in {"decimal", "decimal_loop", "status", "returned"} =>
    LET stripped == WithoutLeadingZeros(candidate)
        direct_failed == \A i \in 1..Len(CallsAt("direct")) : CallsAt("direct")[i].ret = None
        tried == CallsAt("leading_zero")
    IN /\ Len(tried) <= 1
       /\ (Len(tried) = 1) =
             (/\ direct_failed
              /\ Truthy(candidate)
              /\ candidate[1] = "0"
              /\ stripped # EmptyStr)
       /\ Len(tried) = 1 => tried[1].key = stripped
       /\ IF Len(tried) = 1 /\ tried[1].ret # None
          THEN /\ result.LeadingZeroRemoved = stripped
               /\ pc = "returned" =>
                     /\ result.AS400Found
                     /\ result.MasterNumber =
                           resolve_master_number(ininter, insmfh, stripped)
          ELSE result.LeadingZeroRemoved = None

C22_Witness ==
    /\ pc = "returned"
    /\ supplied = <<"0", "0", "1">>
    /\ insmfh = [k \in {<<"1">>} |-> None]
    /\ ~result.VendorFlag
    /\ result.LeadingZeroRemoved = <<"1">>
    /\ result.AS400Found
    /\ result.MasterNumber = <<"1">>


\* C23: a step of evaluate_part (with its walk, resolve_master_number and
\* resolve_vendor_internal calls) or of fm_find_active_flag never changes a
\* loaded map; the FileMaker memo only gains entries, an entry is never removed
\* or overwritten, and its keys are non-empty normalized keys.
C23_Frame ==
    /\ [][/\ "insmfh" \in loaded => insmfh' = insmfh
          /\ "ininter" \in loaded => ininter' = ininter
          /\ "vendor_map" \in loaded => vendor_map' = vendor_map
          /\ \A k \in DOMAIN fm_active_cache :
                /\ k \in DOMAIN fm_active_cache'
                /\ fm_active_cache'[k] = fm_active_cache[k]]_vars
    /\ [](\A k \in DOMAIN fm_active_cache :
             k # EmptyStr /\ normalize_part_number(k) = k)

C23_Witness ==
    /\ pc = "returned"
    /\ DOMAIN fm_active_cache = {<<"1">>, <<"D">>}
    /\ fm_active_cache[<<"1">>] = PyFalse
    /\ result.MasterNumber = <<"D">>
    /\ insmfh # EmptyDict
    /\ loaded = Tables


\* C24: resolve_master_number returns a master for every source key of the
\* supersession map, also when its chain ends at a replacement that is no
\* source key itself.
C24_SourceKeyResolves ==
    (last.op = "resolve" /\ normalize_part_number(last.arg) \in DOMAIN insmfh) =>
       last.ret # None


\* C26: a load_* whose query raised leaves its map unloaded: a map counts as
\* loaded only when a load of it succeeded, so that a later load call or read
\* queries again.
C26_FailedLoadStaysUnloaded ==
    \A t \in Tables :
       t \in loaded => \E e \in BagToSet(load_log) : e.table = t /\ ~e.failed

\* C27: the decimal variant that merely drops the "." never succeeds: a lookup
\* of the decimal stage whose key is the normalized supplied string finds no
\* master; and a DecimalVariantUsed that is set is the normalized supplied
\* string followed by one or two padding zeros, so it differs from it.
C27_DecimalVariantIsPadded ==
    LET norm == normalize_part_number(supplied)
        tried == CallsAt("decimal")
    IN pc \in {"decimal_loop", "status", "returned"} =>
       /\ \A i \in 1..Len(tried) : tried[i].key = norm => tried[i].ret = None
       /\ result.DecimalVariantUsed # None =>
             /\ result.DecimalVariantUsed # norm
             /\ \E n \in 1..2 : result.DecimalVariantUsed = WithZeros(norm, n)
             /\ result.DecimalVariantUsed = tried[Len(tried)].key
             /\ tried[Len(tried)].ret # None

C27_Witness ==
    /\ pc = "returned"
    /\ Len(CallsAt("decimal")) = 2
    /\ CallsAt("decimal")[1].key = normalize_part_number(supplied)
    /\ CallsAt("decimal")[1].ret = None
    /\ result.DecimalVariantUsed = WithZeros(normalize_part_number(supplied), 1)
    /\ result.AS400Found

\* C28: a result returned by evaluate_part is consistent: AS400Found holds
\* exactly when MasterNumber is set, VendorFlag exactly when VendorInternal is
\* set, FMFound implies AS400Found, FMActive is set exactly when FMFound holds,
\* LeadingZeroRemoved and DecimalVariantUsed are never both set, and each of
\* them is set only in a result with AS400Found.
C28_ResultConsistent ==
    pc = "returned" =>
       /\ result.AS400Found = (result.MasterNumber # None)
       /\ result.VendorFlag = (result.VendorInternal # None)
       /\ result.FMFound => result.AS400Found
       /\ result.FMFound = (result.FMActive # None)
       /\ ~(result.LeadingZeroRemoved # None /\ result.DecimalVariantUsed # None)
       /\ result.LeadingZeroRemoved # None => result.AS400Found
       /\ result.DecimalVariantUsed # None => result.AS400Found

C28_Witness ==
    /\ pc = "returned"
    /\ result.VendorFlag
    /\ result.LeadingZeroRemoved # None
    /\ result.AS400Found
    /\ result.FMFound
    /\ result.FMActive = PyFalse

\* the key has a non-empty replacement in the supersession map
Superseded(m, k) == k \in DOMAIN m /\ Truthy(m[k])

\* C30: when the supersession map has no cycle, the master number evaluate_part
\* reports, whatever stage found it, is not empty and has no non-empty
\* replacement in the supersession map.
C30_MasterIsTerminal ==
    (pc \in {"status", "returned"} /\ Acyclic(insmfh)) =>
       /\ Truthy(master) => ~Superseded(insmfh, master)
       /\ result.MasterNumber # None =>
             /\ Truthy(result.MasterNumber)
             /\ ~Superseded(insmfh, result.MasterNumber)

C30_Witness ==
    /\ pc = "returned"
    /\ Acyclic(insmfh)
    /\ result.AS400Found
    /\ \E i \in 1..Len(calls) :
          /\ Superseded(insmfh, calls[i].key)
          /\ calls[i].ret = result.MasterNumber
          /\ calls[i].ret # calls[i].key

\* the dictionary a successful query of the source of a table yields
SourceMap(t) == load_result(t, TRUE)

\* resolve_master_number read off the sources, with no cache in between
UncachedResolve(snschr) ==
    resolve_master_number(SourceMap("ininter"), SourceMap("insmfh"), snschr)

\* the first decimal variant, from position i on, that resolves on the sources
RECURSIVE UncachedDecimal(_, _)
UncachedDecimal(vs, i) ==
    IF i > Len(vs) THEN None
    ELSE LET norm_variant == normalize_part_number(vs[i]) IN
         IF Truthy(norm_variant) /\ Truthy(UncachedResolve(norm_variant))
         THEN norm_variant
         ELSE UncachedDecimal(vs, i + 1)

\* the result of a resolver that queries the sources at every step
UncachedEvaluate(s) ==
    LET vendor_internal == resolve_vendor_internal(SourceMap("vendor_map"), s)
        flag == Truthy(vendor_internal)
        cand == IF flag THEN vendor_internal ELSE normalize_part_number(s)
        m1 == IF Truthy(cand) THEN UncachedResolve(cand) ELSE None
        stripped == IF Truthy(cand) THEN WithoutLeadingZeros(cand) ELSE EmptyStr
        m2 == IF ~Truthy(m1) /\ Truthy(cand) /\ cand[1] = "0" /\ Truthy(stripped)
              THEN UncachedResolve(stripped)
              ELSE None
        used == IF ~Truthy(m1) /\ ~Truthy(m2) /\ ~flag
                THEN UncachedDecimal(generate_decimal_variants(s), 1)
                ELSE None
        m == IF Truthy(m1) THEN m1
             ELSE IF Truthy(m2) THEN m2
             ELSE IF used # None THEN UncachedResolve(used)
             ELSE None
        status == IF Truthy(m) THEN fm_row_value(fm_table, normalize_part_number(m))
                  ELSE None
    IN [Supplied |-> s,
        VendorFlag |-> flag,
        VendorInternal |-> IF flag THEN vendor_internal ELSE None,
        LeadingZeroRemoved |-> IF Truthy(m2) THEN stripped ELSE None,
        DecimalVariantUsed |-> used,
        AS400Found |-> Truthy(m),
        MasterNumber |-> IF Truthy(m) THEN m ELSE None,
        FMFound |-> status # None,
        FMActive |-> status]

\* C29: with unchanged sources, the result evaluate_part returns, whatever
\* load, evaluate_part and fm_find_active_flag calls the cache served before,
\* is the result of a resolver that queries the sources at every step.
C29_CachingTransparent ==
    pc = "returned" => result = UncachedEvaluate(supplied)

\* the thread has read its key in the vendor map
PastVendorMap(t) ==
    threads[t].pc \in {"resolve", "fm_check", "fm_execute", "fm_fetch", "returned"}

\* the thread was answered a miss for a key the vendor table contains
StaleMiss(t) ==
    /\ PastVendorMap(t)
    /\ threads[t].internal = None
    /\ Truthy(resolve_vendor_internal(SourceMap("vendor_map"), threads[t].supplied))

\* C25: the lazy vendor map and the status memo are safe only under callers
\* that serialize the first access: then every thread reads in the vendor map
\* what the table holds for its key, each key is queried for its status at
\* most once and every returned result is that of the sources.  Concurrent
\* callers that do not serialize reach a thread answered a miss, from the map
\* marked loaded and not yet filled, for a key the table contains, and a
\* status query issued twice for one key.
C25_SerializedIsSafe ==
    serialized =>
       /\ \A t \in Threads :
             /\ ~StaleMiss(t)
             /\ PastVendorMap(t) =>
                   threads[t].internal =
                      resolve_vendor_internal(SourceMap("vendor_map"), threads[t].supplied)
             /\ threads[t].pc = "returned" =>
                   threads[t].result = UncachedEvaluate(threads[t].supplied)
       /\ \A k \in DOMAIN fm_query_count : fm_query_count[k] <= 1

C25_Witness ==
    /\ ~serialized
    /\ \A t \in Threads : threads[t].pc = "returned"
    /\ \E t \in Threads :
          /\ StaleMiss(t)
          /\ Truthy(resolve_vendor_internal(vendor_map, threads[t].supplied))
          /\ threads[t].result.AS400Found
          /\ threads[t].result # UncachedEvaluate(threads[t].supplied)
    /\ \E k \in DOMAIN fm_query_count : fm_query_count[k] = 2

=============================================================================
